---- MODULE Spec2Model ----
(***************************************************************************)
(* Model of the WeChat friends province map script: load_province_data     *)
(* (CSV loader),                                                           *)
(* create_province_map (frequency aggregation + chart construction) and    *)
(* the __main__ block that chains them and renders the chart.              *)
(*                                                                         *)
(* A text is a sequence of Unicode code points, a CSV row is a sequence of  *)
(* texts, and the input file is the sequence of what successive reads of   *)
(* csv.reader produce: a row, or an exception raised by that read.         *)
(***************************************************************************)
EXTENDS Integers, Sequences, FiniteSets, TLC

\* ---- program constants ----
PROVINCE_COLUMN_INDEX == 3

\* ---- bounds of the model ----
MaxRows == 3

\* ---- texts ----
\* The code points str.isspace() accepts, which are those str.strip() removes:
\* TAB LF VT FF CR, FS GS RS US, SPACE, NEL, NBSP, OGHAM SPACE, EN QUAD ..
\* HAIR SPACE, LINE and PARAGRAPH SEPARATOR, NARROW NBSP, MEDIUM MATHEMATICAL
\* SPACE, IDEOGRAPHIC SPACE.
Whitespace ==
  (9..13) \cup (28..32) \cup {133, 160, 5760} \cup (8192..8202)
  \cup {8232, 8233, 8239, 8287, 12288}

RECURSIVE lstrip(_)
lstrip(s) ==
  IF s = <<>> THEN <<>>
  ELSE IF Head(s) \in Whitespace THEN lstrip(Tail(s)) ELSE s

RECURSIVE rstrip(_)
rstrip(s) ==
  IF s = <<>> THEN <<>>
  ELSE IF s[Len(s)] \in Whitespace THEN rstrip(SubSeq(s, 1, Len(s) - 1)) ELSE s

\* str.strip() without arguments: keeps only the leading whitespace removal
strip_LeadingOnly(s) == lstrip(s)

\* str.strip() without arguments
strip(s) == rstrip(lstrip(s))

\* ---- input domain ----
\* "x"
Filler == <<120>>

\* 20140 and 27818 are the province names Jing (U+4EAC) and Hu (U+6CAA);
\* around them: SPACE 32, TAB 9, LF 10, FF 12, NBSP 160, IDEOGRAPHIC SPACE 12288
SampleFields ==
  { <<>>, <<32>>, <<12>>, <<20140>>, <<27818>>, <<12288, 20140>>, <<27818, 9>>,
    <<10, 27818, 160>>, <<20140, 32, 27818>> }

\* a row whose column PROVINCE_COLUMN_INDEX holds f, with `extra` columns after it
RowWith(f, extra) ==
  [i \in 1..(PROVINCE_COLUMN_INDEX + 1 + extra) |->
     IF i = PROVINCE_COLUMN_INDEX + 1 THEN f ELSE Filler]

ShortRows == { <<>>, [i \in 1..PROVINCE_COLUMN_INDEX |-> Filler] }

SampleRows ==
  ShortRows \cup {RowWith(f, 0) : f \in SampleFields} \cup {RowWith(<<20140>>, 1)}

RowEvent(r) == [tag |-> "row", row |-> r]
RaiseEvent(e) == [tag |-> e, row |-> <<>>]

\* exceptions a read of the csv reader can raise, by the handler that catches them
ReadErrors == {"UnicodeDecodeError", "Exception"}

DataEvents == {RowEvent(r) : r \in SampleRows} \cup {RaiseEvent(e) : e \in ReadErrors}

HeaderEvents ==
  { RowEvent(RowWith(<<30465, 20221>>, 0)), RowEvent(<<>>), RowEvent(RowWith(<<27818>>, 0)) }
  \cup {RaiseEvent(e) : e \in ReadErrors}

DataSeqs == UNION {[1..n -> DataEvents] : n \in 0..MaxRows}

Files == {<<>>} \cup {<<h>> \o body : h \in HeaderEvents, body \in DataSeqs}

SampleLabels == {<<20140>>, <<27818>>, <<20140, 32, 27818>>}

LabelSeqs == UNION {[1..n -> SampleLabels] : n \in 0..MaxRows}

\* ---- load_province_data: the body of the read loop ----

\* `if len(row) > column_index` off by one: a row needs a column after the wanted one
SufficientColumns_OffByOne(row, column_index) == Len(row) > column_index + 1

\* `if len(row) > column_index`
SufficientColumns(row, column_index) == Len(row) > column_index

\* a short row is given a placeholder label instead of being skipped
ProcessRow_PadShort(provinces, row, column_index) ==
  IF SufficientColumns(row, column_index)
  THEN LET province == strip(row[column_index + 1])
       IN IF province # <<>> THEN Append(provinces, province) ELSE provinces
  ELSE Append(provinces, <<63>>)

\* one iteration of `for row in reader`: the list of labels after the row
ProcessRow(provinces, row, column_index) ==
  IF SufficientColumns(row, column_index)
  THEN LET province == strip(row[column_index + 1])
       IN IF province # <<>> THEN Append(provinces, province) ELSE provinces
  ELSE provinces

\* the handler throws the partial list away
ReturnAfterExcept_Empty(provinces, exc) == <<>>

\* every `except` clause only prints and falls through to `return provinces`
ReturnAfterExcept(provinces, exc) == provinces

\* the file is closed only when the block is left without an exception
HandleOpenAfterWith_NoCleanup(exc) == exc # "none"

\* leaving the `with open(...)` block closes the file, exception or not:
\* is the handle still open afterwards?
HandleOpenAfterWith(exc) == FALSE

\* ---- create_province_map: aggregation ----

EmptyCounter == [keys |-> <<>>, count |-> <<>>]

\* a repeated label overwrites its count instead of incrementing it
CounterAdd_NoIncrement(c, x) ==
  IF x \in DOMAIN c.count
  THEN [keys |-> c.keys, count |-> [c.count EXCEPT ![x] = 1]]
  ELSE [keys |-> Append(c.keys, x), count |-> c.count @@ (x :> 1)]

\* Counter: count one more occurrence of x (keys keep first-insertion order)
CounterAdd(c, x) ==
  IF x \in DOMAIN c.count
  THEN [keys |-> c.keys, count |-> [c.count EXCEPT ![x] = @ + 1]]
  ELSE [keys |-> Append(c.keys, x), count |-> c.count @@ (x :> 1)]

RECURSIVE CounterUpdate(_, _)
CounterUpdate(c, list) ==
  IF list = <<>> THEN c ELSE CounterUpdate(CounterAdd(c, Head(list)), Tail(list))

\* Counter(province_list)
Counter(province_list) == CounterUpdate(EmptyCounter, province_list)

\* list(province_counts.items())
Items(c) == [i \in 1..Len(c.keys) |-> <<c.keys[i], c.count[c.keys[i]]>>]

RECURSIVE MaxFrom(_, _)
MaxFrom(best, counts) ==
  IF counts = <<>> THEN best
  ELSE MaxFrom(IF Head(counts) > best THEN Head(counts) ELSE best, Tail(counts))

\* the count of the first pair is taken for the maximum
max_count_of_First(data_pair) == IF data_pair = <<>> THEN 0 ELSE data_pair[1][2]

\* max(count for province, count in data_pair) if data_pair else 0
max_count_of(data_pair) ==
  IF data_pair = <<>> THEN 0
  ELSE MaxFrom(data_pair[1][2], [i \in 1..(Len(data_pair) - 1) |-> data_pair[i + 1][2]])

\* the chart objects create_province_map can return
NoMap == [kind |-> "none", title |-> "", data_pair |-> <<>>, max_ |-> 0]

EmptyMap == [kind |-> "empty", title |-> "no valid data", data_pair |-> <<>>, max_ |-> 0]

ChinaMap(data_pair, max_count) ==
  [kind |-> "china", title |-> "MAP_TITLE", data_pair |-> data_pair, max_ |-> max_count + 1]

\* `if not province_data` never holds
NoProvinceData_Never(province_list) == FALSE

\* `if not province_data` in the main block: the loaded list is empty
NoProvinceData(province_list) == province_list = <<>>

\* the value create_province_map returns when the chart library does not raise
create_province_map(province_list) ==
  LET province_counts == Counter(province_list)
      data_pair == Items(province_counts)
  IN IF data_pair = <<>> THEN EmptyMap
     ELSE ChinaMap(data_pair, max_count_of(data_pair))

\* ---- state ----
VARIABLES
  entry,          \* "main": the script is run; "create_province_map": the function is called directly
  exists,         \* os.path.exists(CSV_FILENAME)
  file,           \* what the successive reads of the csv reader produce
  pos,            \* number of reads done
  provinces,      \* the local list of load_province_data
  handleOpen,     \* the csv file object is open
  loadError,      \* the exception handled inside load_province_data, "none" if none
  province_data,  \* the list returned to the main block (or passed to create_province_map)
  map_chart,      \* the Map object returned by create_province_map
  renderInvoked,  \* province_map.render was called
  htmlWritten,    \* the render produced the HTML file
  out,            \* the messages printed, in order
  pc              \* position of the program

vars == <<entry, exists, file, pos, provinces, handleOpen, loadError, province_data,
          map_chart, renderInvoked, htmlWritten, out, pc>>

Report(msg) == out' = Append(out, msg)

InitMain ==
  /\ entry = "main"
  /\ exists \in BOOLEAN
  /\ file \in (IF exists THEN Files ELSE {<<>>})
  /\ province_data = <<>>
  /\ pc = "main_start"

InitCall ==
  /\ entry = "create_province_map"
  /\ exists = FALSE
  /\ file = <<>>
  /\ province_data \in LabelSeqs
  /\ pc = "create"

Init ==
  /\ InitMain \/ InitCall
  /\ pos = 0
  /\ provinces = <<>>
  /\ handleOpen = FALSE
  /\ loadError = "none"
  /\ map_chart = NoMap
  /\ renderInvoked = FALSE
  /\ htmlWritten = FALSE
  /\ out = <<>>

\* ---- __main__, step 0 and the call of load_province_data ----
MainStart ==
  /\ pc = "main_start"
  /\ Report("start")
  /\ pc' = "load_exists"
  /\ UNCHANGED <<entry, exists, file, pos, provinces, handleOpen, loadError, province_data,
                 map_chart, renderInvoked, htmlWritten>>

\* `if not os.path.exists(filename)`: report and return the empty list
LoadMissing ==
  /\ pc = "load_exists"
  /\ ~exists
  /\ Report("file_missing")
  /\ pc' = "load_return"
  /\ UNCHANGED <<entry, exists, file, pos, provinces, handleOpen, loadError, province_data,
                 map_chart, renderInvoked, htmlWritten>>

LoadExists ==
  /\ pc = "load_exists"
  /\ exists
  /\ pc' = "load_open"
  /\ UNCHANGED <<entry, exists, file, pos, provinces, handleOpen, loadError, province_data,
                 map_chart, renderInvoked, htmlWritten, out>>

\* open(filename, 'r', encoding='utf-8-sig') succeeds
LoadOpen ==
  /\ pc = "load_open"
  /\ handleOpen' = TRUE
  /\ pc' = "load_header"
  /\ UNCHANGED <<entry, exists, file, pos, provinces, loadError, province_data,
                 map_chart, renderInvoked, htmlWritten, out>>

\* open raises: the file vanished since the check, or cannot be opened
LoadOpenFails ==
  /\ pc = "load_open"
  /\ \E exc \in {"FileNotFoundError", "Exception"} :
       /\ loadError' = exc
       /\ provinces' = ReturnAfterExcept(provinces, exc)
       /\ Report(exc)
  /\ pc' = "load_return"
  /\ UNCHANGED <<entry, exists, file, pos, handleOpen, province_data,
                 map_chart, renderInvoked, htmlWritten>>

\* a read of the reader raises: the with block is left, the handler prints
RaiseInRead(exc) ==
  /\ loadError' = exc
  /\ handleOpen' = HandleOpenAfterWith(exc)
  /\ provinces' = ReturnAfterExcept(provinces, exc)
  /\ Report(exc)
  /\ pc' = "load_return"

\* header = next(reader, None)
LoadHeader ==
  /\ pc = "load_header"
  /\ IF pos < Len(file)
     THEN LET ev == file[pos + 1]
          IN /\ pos' = pos + 1
             /\ IF ev.tag = "row"
                THEN /\ IF ev.row # <<>> THEN Report("skip_header") ELSE out' = out
                     /\ pc' = "load_loop"
                     /\ UNCHANGED <<provinces, handleOpen, loadError>>
                ELSE RaiseInRead(ev.tag)
     ELSE /\ pc' = "load_loop"
          /\ UNCHANGED <<pos, provinces, handleOpen, loadError, out>>
  /\ UNCHANGED <<entry, exists, file, province_data, map_chart, renderInvoked, htmlWritten>>

\* one iteration of `for row in reader`
LoadRow ==
  /\ pc = "load_loop"
  /\ pos < Len(file)
  /\ LET ev == file[pos + 1]
     IN /\ pos' = pos + 1
        /\ IF ev.tag = "row"
           THEN /\ provinces' = ProcessRow(provinces, ev.row, PROVINCE_COLUMN_INDEX)
                /\ UNCHANGED <<handleOpen, loadError, out, pc>>
           ELSE RaiseInRead(ev.tag)
  /\ UNCHANGED <<entry, exists, file, province_data, map_chart, renderInvoked, htmlWritten>>

\* the reader is exhausted: the with block is left normally
LoadEnd ==
  /\ pc = "load_loop"
  /\ pos = Len(file)
  /\ handleOpen' = HandleOpenAfterWith("none")
  /\ pc' = "load_return"
  /\ UNCHANGED <<entry, exists, file, pos, provinces, loadError, province_data,
                 map_chart, renderInvoked, htmlWritten, out>>

\* `return provinces`, assigned to province_data in the main block
LoadReturn ==
  /\ pc = "load_return"
  /\ province_data' = provinces
  /\ pc' = "main_check"
  /\ UNCHANGED <<entry, exists, file, pos, provinces, handleOpen, loadError,
                 map_chart, renderInvoked, htmlWritten, out>>

\* ---- __main__, steps 2 to 4 ----
MainNoData ==
  /\ pc = "main_check"
  /\ NoProvinceData(province_data)
  /\ Report("no_data_exit")
  /\ pc' = "main_done"
  /\ UNCHANGED <<entry, exists, file, pos, provinces, handleOpen, loadError, province_data,
                 map_chart, renderInvoked, htmlWritten>>

MainLoaded ==
  /\ pc = "main_check"
  /\ ~NoProvinceData(province_data)
  /\ Report("loaded")
  /\ pc' = "create"
  /\ UNCHANGED <<entry, exists, file, pos, provinces, handleOpen, loadError, province_data,
                 map_chart, renderInvoked, htmlWritten>>

\* create_province_map(province_data) returns a chart
CreateMap ==
  /\ pc = "create"
  /\ map_chart' = create_province_map(province_data)
  /\ IF map_chart'.kind = "empty" THEN Report("warn_no_data") ELSE out' = out
  /\ pc' = IF entry = "main" THEN "render" ELSE "returned"
  /\ UNCHANGED <<entry, exists, file, pos, provinces, handleOpen, loadError, province_data,
                 renderInvoked, htmlWritten>>

\* the chart library raises inside create_province_map: no handler encloses the
\* call. On the empty branch the warning is printed before the library is used.
CreateMapRaises ==
  /\ pc = "create"
  /\ IF Items(Counter(province_data)) = <<>> THEN Report("warn_no_data") ELSE out' = out
  /\ pc' = "uncaught"
  /\ UNCHANGED <<entry, exists, file, pos, provinces, handleOpen, loadError, province_data,
                 map_chart, renderInvoked, htmlWritten>>

\* province_map.render(path=OUTPUT_HTML_FILENAME) inside try/except
Render ==
  /\ pc = "render"
  /\ renderInvoked' = TRUE
  /\ \E ok \in BOOLEAN :
       /\ htmlWritten' = ok
       /\ Report(IF ok THEN "saved" ELSE "render_error")
  /\ pc' = "main_done"
  /\ UNCHANGED <<entry, exists, file, pos, provinces, handleOpen, loadError, province_data,
                 map_chart>>

MainDone ==
  /\ pc = "main_done"
  /\ Report("done")
  /\ pc' = "exit"
  /\ UNCHANGED <<entry, exists, file, pos, provinces, handleOpen, loadError, province_data,
                 map_chart, renderInvoked, htmlWritten>>

Next ==
  \/ MainStart
  \/ LoadMissing
  \/ LoadExists
  \/ LoadOpen
  \/ LoadOpenFails
  \/ LoadHeader
  \/ LoadRow
  \/ LoadEnd
  \/ LoadReturn
  \/ MainNoData
  \/ MainLoaded
  \/ CreateMap
  \/ CreateMapRaises
  \/ Render
  \/ MainDone

Spec == Init /\ [][Next]_vars

\* ---- vocabulary of the properties ----
Range(f) == {f[i] : i \in DOMAIN f}

\* load_province_data has returned to the main block
Returned == entry = "main" /\ pc \in {"main_check", "main_done", "create", "render", "uncaught", "exit"}

\* the file was opened and read (open itself did not fail, the file was not missing)
WasRead == exists /\ (loadError = "none" \/ pos >= 1)

\* position of the first read that raises, Len(file) + 1 when none does
FirstRaise ==
  IF \E i \in DOMAIN file : file[i].tag # "row"
  THEN CHOOSE i \in DOMAIN file :
         file[i].tag # "row" /\ \A j \in 1..(i - 1) : file[j].tag = "row"
  ELSE Len(file) + 1

\* the text between the first and the last non-whitespace character
Trimmed(t) ==
  LET solid == {i \in DOMAIN t : t[i] \notin Whitespace}
  IN IF solid = {} THEN <<>>
     ELSE SubSeq(t, CHOOSE i \in solid : \A j \in solid : i <= j,
                    CHOOSE i \in solid : \A j \in solid : j <= i)

HasColumn(ev) == ev.tag = "row" /\ Len(ev.row) >= PROVINCE_COLUMN_INDEX + 1

IsLabelRow(ev) == HasColumn(ev) /\ Trimmed(ev.row[PROVINCE_COLUMN_INDEX + 1]) # <<>>

\* the labels of the data rows file[2..last], in file order
LabelsUpTo(last) ==
  LET sel == SelectSeq(SubSeq(file, 2, last), IsLabelRow)
  IN [i \in 1..Len(sel) |-> Trimmed(sel[i].row[PROVINCE_COLUMN_INDEX + 1])]

Occurrences(list, x) == Cardinality({k \in DOMAIN list : list[k] = x})

PairsCount(list, data_pair) ==
  /\ {data_pair[i][1] : i \in DOMAIN data_pair} = Range(list)
  /\ \A i, j \in DOMAIN data_pair : data_pair[i][1] = data_pair[j][1] => i = j
  /\ \A i \in DOMAIN data_pair : data_pair[i][2] = Occurrences(list, data_pair[i][1])

RECURSIVE SumCounts(_)
SumCounts(data_pair) ==
  IF data_pair = <<>> THEN 0 ELSE data_pair[1][2] + SumCounts(Tail(data_pair))

\* ---- properties ----

\* C1: whenever load_province_data handles a UnicodeDecodeError it returns the
\* empty sequence, so no label of a row read before the failure is returned,
\* aggregated or rendered.
C1_DecodeFailureYieldsEmpty ==
  (entry = "main" /\ loadError = "UnicodeDecodeError")
    => (provinces = <<>> /\ province_data = <<>> /\ map_chart = NoMap /\ ~renderInvoked)

\* C2: in a run of the main block, when the loader returns the empty sequence
\* the run reports the no-data condition and ends without building or rendering
\* a map; create_province_map called with the empty sequence warns and returns
\* the "no data" chart, which has no pairs.
C2_NoRenderOnEmptyLoad ==
  /\ (Returned /\ province_data = <<>>)
       => /\ pc \in {"main_check", "main_done", "exit"}
          /\ map_chart = NoMap
          /\ ~renderInvoked /\ ~htmlWritten
          /\ pc # "main_check" => out[Len(out) - (IF pc = "exit" THEN 1 ELSE 0)] = "no_data_exit"
  /\ (entry = "create_province_map" /\ pc = "returned" /\ province_data = <<>>)
       => /\ map_chart.kind = "empty"
          /\ map_chart.data_pair = <<>>
          /\ out = <<"warn_no_data">>

C2_Witness ==
  /\ entry = "main" /\ pc = "exit" /\ province_data = <<>>
  /\ exists /\ loadError = "none" /\ Len(file) >= 3 /\ pos = Len(file)

\* C3: when a read raises an exception other than a decode error, the loader
\* returns exactly the labels of the data rows read before the failing read;
\* when that sequence is not empty the run does not take the no-data exit, and
\* the chart that is rendered carries the frequency pairs of that sequence.
C3_ReadFailureKeepsPartial ==
  (Returned /\ loadError = "Exception" /\ pos >= 1)
    => /\ pos = FirstRaise
       /\ province_data = LabelsUpTo(FirstRaise - 1)
       /\ province_data # <<>> =>
            /\ \A i \in DOMAIN out : out[i] # "no_data_exit"
            /\ pc \in {"main_done", "exit"} =>
                 /\ renderInvoked
                 /\ map_chart.kind = "china"
                 /\ PairsCount(province_data, map_chart.data_pair)

C3_Witness ==
  /\ entry = "main" /\ pc = "exit" /\ loadError = "Exception"
  /\ pos >= 3 /\ pos < Len(file)
  /\ province_data # <<>> /\ renderInvoked /\ htmlWritten

\* C4 (as stated): no row stops the load, so every data row of the file with
\* enough columns and a non-empty trimmed field has its label in the output.
C4_EveryLabelRowContributes ==
  (Returned /\ WasRead)
    => \A i \in 2..Len(file) :
         IsLabelRow(file[i]) => Trimmed(file[i].row[PROVINCE_COLUMN_INDEX + 1]) \in Range(province_data)

\* C4 (amended): a row with too few columns or with an empty trimmed field is
\* skipped and does not stop the load; the load stops only at the first read
\* that raises, so the output is, in order, the labels of the data rows before
\* the first raising read (all data rows when no read raises).
C4_OnlyRaisingReadStopsLoad ==
  (Returned /\ WasRead) => province_data = LabelsUpTo(FirstRaise - 1)

C4_Witness ==
  /\ entry = "main" /\ pc = "exit" /\ loadError = "none" /\ Len(file) >= 3
  /\ ~IsLabelRow(file[2]) /\ IsLabelRow(file[3])
  /\ province_data # <<>>

\* C5: no exception propagates out of the main block: every failure is handled
\* with a printed message and the run goes on to its final step.
C5_NoUncaughtException ==
  entry = "main" => pc # "uncaught"

\* C6: every label collected by the loader is non-empty and neither starts
\* nor ends with whitespace; a row whose field is empty after stripping adds
\* nothing to the sequence nor to the counted pairs.
C6_LabelsTrimmedNonEmpty ==
  /\ \A i \in DOMAIN provinces :
       /\ provinces[i] # <<>>
       /\ provinces[i][1] \notin Whitespace
       /\ provinces[i][Len(provinces[i])] \notin Whitespace
  /\ entry = "main" => province_data \in {<<>>, provinces}
  /\ Len(provinces) <= Cardinality({i \in 2..pos : IsLabelRow(file[i])})
  /\ entry = "main" =>
       SumCounts(map_chart.data_pair) <= Cardinality({i \in 2..pos : IsLabelRow(file[i])})

C6_Witness ==
  /\ entry = "main" /\ pc = "exit" /\ renderInvoked
  /\ \E i, j \in 2..pos :
       /\ HasColumn(file[i]) /\ file[i].row[PROVINCE_COLUMN_INDEX + 1] = <<12>>
       /\ HasColumn(file[j]) /\ file[j].row[PROVINCE_COLUMN_INDEX + 1] = <<10, 27818, 160>>
  /\ province_data = <<<<27818>>>>

\* C7: a data row with len(row) <= field_index is skipped without an error and
\* without appending, so the output is never longer than the number of data
\* rows read that have more than field_index fields.
C7_ShortRowsSkipped ==
  /\ [](Len(provinces) <=
          Cardinality({i \in 2..pos : file[i].tag = "row"
                                       /\ Len(file[i].row) > PROVINCE_COLUMN_INDEX}))
  /\ [][(/\ pc = "load_loop" /\ pos < Len(file)
         /\ file[pos + 1].tag = "row"
         /\ Len(file[pos + 1].row) <= PROVINCE_COLUMN_INDEX)
        => (/\ provinces' = provinces /\ loadError' = loadError
            /\ out' = out /\ pc' = "load_loop" /\ handleOpen')]_vars

C7_Witness ==
  /\ entry = "main" /\ pc = "exit" /\ loadError = "none"
  /\ \E i \in 2..Len(file) : file[i].tag = "row" /\ Len(file[i].row) = PROVINCE_COLUMN_INDEX
  /\ Len(province_data) = Len(file) - 2 /\ Len(file) >= 3

\* C8: for a non-empty label sequence the pairs handed to the renderer are the
\* entries of the frequency table: one pair per distinct label, its count the
\* number of occurrences of the label, the counts summing to the length.
C8_PairsAreFrequencyTable ==
  /\ (pc \in {"render", "returned", "main_done", "exit"} /\ province_data # <<>>)
       => map_chart.kind = "china"
  /\ map_chart.kind = "china" =>
       /\ province_data # <<>>
       /\ PairsCount(province_data, map_chart.data_pair)
       /\ SumCounts(map_chart.data_pair) = Len(province_data)

C8_Witness ==
  /\ entry = "main" /\ renderInvoked
  /\ map_chart.kind = "china"
  /\ Len(map_chart.data_pair) >= 2
  /\ \E i \in DOMAIN map_chart.data_pair : map_chart.data_pair[i][2] >= 2

\* C9: for a non-empty label sequence the scale bound is the largest number of
\* occurrences of a label, and the bound given to the visual map is that
\* maximum plus one, above every count.
C9_ScaleBoundIsMaxPlusOne ==
  map_chart.kind = "china" =>
    /\ \E x \in Range(province_data) : Occurrences(province_data, x) = map_chart.max_ - 1
    /\ \A x \in Range(province_data) : Occurrences(province_data, x) < map_chart.max_
    /\ \A i \in DOMAIN map_chart.data_pair : map_chart.data_pair[i][2] < map_chart.max_

C9_Witness ==
  /\ map_chart.kind = "china"
  /\ Len(map_chart.data_pair) >= 2
  /\ map_chart.data_pair[1][2] < map_chart.max_ - 1

\* C10: the file handle is open only inside the with block of the loader: never
\* when the file is missing, and closed once the loader has left the block,
\* after a normal end or after an exception, hence while the chart is built
\* and rendered.
C10_HandleReleased ==
  /\ handleOpen => (exists /\ pc \in {"load_header", "load_loop"})
  /\ entry = "create_province_map" => ~handleOpen

C10_Witness ==
  /\ entry = "main" /\ pc = "exit" /\ renderInvoked
  /\ loadError \in ReadErrors /\ pos >= 2
  /\ ~handleOpen

====
